---- MODULE Spec2Model ----
(***************************************************************************)
(* Model of jackft/iw: the per-track Kalman filtering / RTS smoothing of   *)
(* src/src/kalman.py and the pixel -> world mapper of                      *)
(* src/src/pixelmapper.py.                                                 *)
(*                                                                         *)
(* filterpy, pandas and OpenCV are libraries, not code of the repository.  *)
(* Their numerical results are kept as terms: a filter mean is the         *)
(* sequence of the operations (init, predict, update with z) that produced *)
(* it, a covariance is the sequence of the operation names (a Kalman       *)
(* covariance does not depend on the measurements), a mapped point is the  *)
(* chain of the transforms applied to the pixel.  What the repository's    *)
(* own code decides (which rows are grouped, which step a row gets, where  *)
(* a result is written, which transform is applied first) is modelled      *)
(* step by step.                                                           *)
(***************************************************************************)
EXTENDS Integers, Sequences, FiniteSets, TLC

\* Largest number of rows of the input table.
MaxRows == 3

\* The tracking ids a row may carry.
TrackIds == {1, 2}

\* The missing-value sentinel of the x and y columns (floating-point NaN).
NaN == -1

\* Largest number of points in a batch handed to the mapper.
MaxPoints == 2

\* What batch_filter is given for a frame without measurement (Python None).
None == << >>

VARIABLES
    df,        \* the table: rows [trackingId, frame, x, y, kalman, rts]
    pc,        \* position in kalman / run_filter
    todo,      \* track ids df.groupby("trackingId") has still to yield
    cur,       \* trackingId of the loop iteration (0: none)
    gidx,      \* gdf.index: the df positions of the current track, in order
    kfilter,   \* the filter object: [x |-> mean, P |-> covariance]
    bkeys,     \* block keys df.groupby(blocks) has still to yield
    brows,     \* df positions of the rows of the current block
    zs,        \* measurements batch_filter has still to consume
    m,         \* batch_filter's means so far
    c,         \* batch_filter's covariances so far
    ms,        \* run_filter's list ms
    cs,        \* run_filter's list cs
    mu,        \* run_filter's first result, np.vstack(ms)
    cov,       \* run_filter's second result, np.vstack(cs)
    err,       \* the exception kalman ended with ("" when none)
    steps,     \* history: every predict/update step taken
    smooths,   \* history: every rts_smoother call
    pm,        \* the PixelMapper object
    mpc,       \* position of the mapper's caller
    arg,       \* the batch handed to the mapper
    res,       \* what the last mapper call returned or raised
    ref,       \* history: an earlier call, kept to compare later calls with
    cal,       \* extrinsic_calibration: its locals and the output file
    landmarks, \* tie_pixels_to_world: df, the landmarks read from --input
    video,     \* the number of frames of the video
    points_df, \* the recorded correspondences, rows in table order
    current_point,      \* index of the landmark to click next
    show_instruction,   \* the instructions are drawn
    frame_index,        \* the frame number the tool displays
    cap,       \* position of the VideoCapture: the frame it reads next
    frame,     \* the frame on screen
    points_before_loop, \* len(points_df) at the top of the iteration
    tpc,       \* position in tie_pixels_to_world
    output,    \* the --output csv
    handled    \* history: the key the main loop handled last, and its effect

kvars == <<df, pc, todo, cur, gidx, kfilter, bkeys, brows, zs, m, c, ms, cs,
           mu, cov, err, steps, smooths>>
mvars == <<pm, mpc, arg, res, ref, cal>>
tvars == <<landmarks, video, points_df, current_point, show_instruction,
           frame_index, cap, frame, points_before_loop, tpc, output, handled>>
vars == <<kvars, mvars, tvars>>

-----------------------------------------------------------------------------
(* pandas helpers *)

isna(v) == v = NaN

\* The elements of a finite set of integers in ascending order (groupby
\* yields its groups sorted by key).
RECURSIVE SortedSeq(_)
SortedSeq(S) ==
    IF S = {} THEN << >>
    ELSE LET lo == CHOOSE a \in S : \A b \in S : a <= b
         IN  <<lo>> \o SortedSeq(S \ {lo})

\* The last array of the list only.
VStackLast(l) == IF l = << >> THEN << >> ELSE l[Len(l)]

\* np.vstack: the concatenation of a list of arrays.
RECURSIVE VStack(_)
VStack(l) == IF l = << >> THEN << >> ELSE Head(l) \o VStack(Tail(l))

-----------------------------------------------------------------------------
(* kalman.py *)

\* kalman_filter(sx, sy): a fresh filter seeded at position (sx, sy), zero
\* velocity and acceleration, covariance 15 * I.
kalman_filter(sx, sy) ==
    [x |-> << [op |-> "init", z |-> <<sx, sy>>] >>,
     P |-> << "init" >>]

\* KalmanFilter.predict: x = F x, P = F P F' + Q.
Predict(kf) ==
    [x |-> Append(kf.x, [op |-> "predict", z |-> None]),
     P |-> Append(kf.P, "predict")]

\* KalmanFilter.update(z): nothing for z = None, else x = x + K (z - H x),
\* P = (I - K H) P (I - K H)' + K R K'.
Update(kf, z) ==
    IF z = None THEN kf
    ELSE [x |-> Append(kf.x, [op |-> "update", z |-> z]),
          P |-> Append(kf.P, "update")]

\* The state vector a mean stands for, (x, vx, ax, y, vy, ay) with velocity
\* and acceleration in units of a frame (vx * dt, ax * dt^2 / 2), when it is
\* determined without the gain; else unknown.
Known(v) == [known |-> TRUE, v |-> v]
Unknown == [known |-> FALSE, v |-> << >>]

\* A filter seeded with a velocity of one unit a frame along x.
InitialStateMoving(sx, sy) == <<sx, 1, 0, sy, 0, 0>>

\* Line 58: kf.x = [[sx, 0, 0, sy, 0, 0]].T
InitialState(sx, sy) == <<sx, 0, 0, sy, 0, 0>>

\* Lines 39-44: x = F x, F the constant-acceleration transition
\* [[1, dt, dt^2/2], [0, 1, dt], [0, 0, 1]] on each axis.
PredictMean(v) ==
    <<v[1] + v[2] + v[3], v[2] + 2 * v[3], v[3],
      v[4] + v[5] + v[6], v[5] + 2 * v[6], v[6]>>

\* Lines 47-48: H x, the position on both axes.
Measured(v) == <<v[1], v[4]>>

\* The value of a mean: update leaves the state as it is when the
\* measurement equals H x (x + K (z - H x) = x for every gain K); for any
\* other measurement the result depends on the gain and is left unknown.
RECURSIVE Mean(_)
Mean(x) ==
    IF x = << >> THEN Unknown
    ELSE LET last == x[Len(x)]
             before == Mean(SubSeq(x, 1, Len(x) - 1))
         IN  IF last.op = "init"
             THEN Known(InitialState(last.z[1], last.z[2]))
             ELSE IF ~before.known THEN Unknown
             ELSE IF last.op = "predict" THEN Known(PredictMean(before.v))
             ELSE IF isna(last.z[1]) \/ isna(last.z[2]) THEN Unknown
             ELSE IF last.z = Measured(before.v) THEN before
             ELSE Unknown

\* Line 34 and line 80: dt = 1 / 30.
FrameRate == 30

\* Lines 35, 36 and 59: the standard deviations of measurement and process
\* noise, and the initial variance of every state component.
R_std == 15
Q_std == 15
P_init == 15

\* The covariance of one axis (both have the same) is kept for the state
\* (x, vx * dt, ax * dt^2 / 2) and in units of 1 / CovScale, which makes
\* F, Q and the initial covariance integers.
CovScale == 4 * FrameRate * FrameRate * FrameRate * FrameRate

\* Line 55: R = I * R_std^2.
RVar == R_std * R_std * CovScale

\* Lines 56-57: Q_discrete_white_noise(dim=3, dt, var=Q_std^2) is
\* var * [[dt^4/4, dt^3/2, dt^2/2], [dt^3/2, dt^2, dt], [dt^2/2, dt, 1]],
\* that is QVar * [[1, 2, 1], [2, 4, 2], [1, 2, 1]] in these units.
QVar == Q_std * Q_std

\* A number known to lie between two integers.
Exact(n) == <<n, n>>
Plus(a, b) == <<a[1] + b[1], a[2] + b[2]>>
Times(k, a) == <<k * a[1], k * a[2]>>

\* Quotient and remainder of a * b by s, for a, b >= 0 and 0 < s < 2^30,
\* without forming a * b.
RECURSIVE MulDiv(_, _, _)
MulDiv(a, b, s) ==
    IF b = 0 THEN <<0, 0>>
    ELSE LET h   == MulDiv(a, b \div 2, s)
             r2  == 2 * h[2]
             r3  == IF r2 >= s THEN r2 - s ELSE r2
             add == IF b % 2 = 1 THEN a ELSE 0
             t   == r3 + (add % s)
         IN  <<2 * h[1] + (IF r2 >= s THEN 1 ELSE 0) + (add \div s) + (t \div s),
               t % s>>

DivFloor(a, b, s) == MulDiv(a, b, s)[1]
DivCeil(a, b, s) ==
    LET d == MulDiv(a, b, s) IN d[1] + (IF d[2] > 0 THEN 1 ELSE 0)

UnknownCov == [known |-> FALSE]

\* Line 59: P = 15 I.
InitialCov ==
    [known |-> TRUE,
     p00 |-> Exact(P_init * CovScale), p01 |-> Exact(0), p02 |-> Exact(0),
     p11 |-> Exact(P_init * 4 * FrameRate * FrameRate), p12 |-> Exact(0),
     p22 |-> Exact(P_init)]

\* KalmanFilter.predict: P = F P F' + Q with F = [[1, 1, 1], [0, 1, 2],
\* [0, 0, 1]] (lines 39-44 in these units).
PredictCov(P) ==
    [known |-> TRUE,
     p00 |-> Plus(Plus(Plus(P.p00, P.p11), Plus(P.p22, Exact(QVar))),
                  Times(2, Plus(Plus(P.p01, P.p02), P.p12))),
     p01 |-> Plus(Plus(Plus(P.p01, P.p11), Plus(Times(2, P.p02), Times(3, P.p12))),
                  Plus(Times(2, P.p22), Exact(2 * QVar))),
     p02 |-> Plus(Plus(P.p02, P.p12), Plus(P.p22, Exact(QVar))),
     p11 |-> Plus(Plus(P.p11, Times(4, P.p12)),
                  Plus(Times(4, P.p22), Exact(4 * QVar))),
     p12 |-> Plus(Plus(P.p12, Times(2, P.p22)), Exact(2 * QVar)),
     p22 |-> Plus(P.p22, Exact(QVar))]

\* KalmanFilter.update: with H the position (lines 47-48) and S = P00 + R,
\* P = (I - K H) P (I - K H)' + K R K', which is Pij - P0i P0j / S.
UpdateCov(P) ==
    IF P.p00[1] < 0 \/ P.p01[1] < 0 \/ P.p02[1] < 0 THEN UnknownCov
    ELSE LET sLo == P.p00[1] + RVar
             sHi == P.p00[2] + RVar
             Row0(e) == <<DivFloor(e[1], RVar, sHi), DivCeil(e[2], RVar, sLo)>>
             Rest(e, a, b) == <<e[1] - DivCeil(a[2], b[2], sLo),
                                e[2] - DivFloor(a[1], b[1], sHi)>>
         IN  [known |-> TRUE,
              p00 |-> <<DivFloor(P.p00[1], RVar, sLo),
                        DivCeil(P.p00[2], RVar, sHi)>>,
              p01 |-> Row0(P.p01),
              p02 |-> Row0(P.p02),
              p11 |-> Rest(P.p11, P.p01, P.p01),
              p12 |-> Rest(P.p12, P.p01, P.p02),
              p22 |-> Rest(P.p22, P.p02, P.p02)]

\* The value of a covariance.
RECURSIVE Cov(_)
Cov(P) ==
    IF P = << >> THEN UnknownCov
    ELSE LET before == Cov(SubSeq(P, 1, Len(P) - 1))
         IN  IF P[Len(P)] = "init" THEN InitialCov
             ELSE IF ~before.known THEN UnknownCov
             ELSE IF P[Len(P)] = "predict" THEN PredictCov(before)
             ELSE UpdateCov(before)

\* The variance of the position, and the trace (times CovScale /
\* FrameRate^2) of a covariance.
PosVar(C) == C.p00
Trace(C) ==
    <<(C.p00[1] \div (FrameRate * FrameRate)) + C.p11[1]
        + 4 * FrameRate * FrameRate * C.p22[1],
      (C.p00[2] \div (FrameRate * FrameRate)) + 1 + C.p11[2]
        + 4 * FrameRate * FrameRate * C.p22[2]>>

\* gdf of line 76: the df positions of the rows of track t, in df order.
GroupIndex(d, t) == SortedSeq({i \in DOMAIN d : d[i].trackingId = t})

\* The track ids in the order groupby("trackingId") yields them.
GroupKeys(d) == SortedSeq({d[i].trackingId : i \in DOMAIN d})

\* The rows whose x is present, whatever their y.
StartIdxOfX(d, idx) == SortedSeq({k \in DOMAIN idx : ~isna(d[idx[k]].x)})

\* Line 77-79: the positions (within idx) of the rows whose x and y are both
\* present.
StartIdx(d, idx) ==
    SortedSeq({k \in DOMAIN idx : ~(isna(d[idx[k]].x) \/ isna(d[idx[k]].y))})

\* Line 63: the block number of every row of the track,
\* (isna(x) != isna(x.shift())).cumsum(); shift() puts NaN before the first.
Blocks(d, idx) ==
    LET changed(i) == IF i = 1 THEN isna(d[idx[1]].x) # TRUE
                      ELSE isna(d[idx[i]].x) # isna(d[idx[i - 1]].x)
        B[i \in 0 .. Len(idx)] ==
            IF i = 0 THEN 0 ELSE B[i - 1] + (IF changed(i) THEN 1 ELSE 0)
    IN  [i \in 1 .. Len(idx) |-> B[i]]

\* Line 66: the keys of df.groupby(blocks), ascending.
BlockKeys(d, idx) ==
    LET b == Blocks(d, idx) IN SortedSeq({b[i] : i \in DOMAIN b})

\* Line 66: the rows (df positions) of the block with key k, in row order.
BlockRows(d, idx, k) ==
    LET b == Blocks(d, idx)
        F[i \in 0 .. Len(idx)] ==
            IF i = 0 THEN << >>
            ELSE IF b[i] = k THEN Append(F[i - 1], idx[i]) ELSE F[i - 1]
    IN  F[Len(idx)]

\* Lines 67-70: what batch_filter is given for a block: None for every row
\* when the block's first row lacks x or y, else the rows' (x, y) values.
BatchInput(d, rows) ==
    IF isna(d[rows[1]].x) \/ isna(d[rows[1]].y)
    THEN [i \in 1 .. Len(rows) |-> None]
    ELSE [i \in 1 .. Len(rows) |-> <<d[rows[i]].x, d[rows[i]].y>>]

\* KalmanFilter.rts_smoother(mu, cov): the backward recursion; the smoothed
\* estimate of step k is computed from the forward estimates k .. n.
RtsSmoother(Xs, Ps) ==
    [k \in 1 .. Len(Xs) |->
        [op |-> "rts", xs |-> SubSeq(Xs, k, Len(Xs)), ps |-> SubSeq(Ps, k, Len(Ps))]]

-----------------------------------------------------------------------------
(* Input tables *)

\* Row i of an input table: its measurements, when present, are those of no
\* other row; frames increase along the table, by one or by two.
InputRow(i, ch, stride) ==
    [trackingId |-> ch.id,
     frame      |-> (i - 1) * stride,
     x          |-> IF ch.hasx THEN 2 * i ELSE NaN,
     y          |-> IF ch.hasy THEN 2 * i + 1 ELSE NaN,
     kalman     |-> << >>,
     rts        |-> << >>]

RowChoice == [id : TrackIds, hasx : BOOLEAN, hasy : BOOLEAN]

\* The table of n rows with the choices ch and the frame stride.
InputTable(n, ch, stride) == [i \in 1 .. n |-> InputRow(i, ch[i], stride)]

NoFilter == [x |-> << >>, P |-> << >>]

\* The mapper is not part of a kalman run.
MapperIdle ==
    /\ pm = << >>
    /\ mpc = "off"
    /\ arg = << >>
    /\ res = << >>
    /\ ref = << >>
    /\ cal = << >>

\* The annotation tool is not running.
ToolIdle ==
    /\ landmarks = << >>
    /\ video = 0
    /\ points_df = << >>
    /\ current_point = 0
    /\ show_instruction = FALSE
    /\ frame_index = 0
    /\ cap = 0
    /\ frame = 0
    /\ points_before_loop = 0
    /\ tpc = "off"
    /\ output = << >>
    /\ handled = << >>

InitKalman ==
    /\ \E n \in 1 .. MaxRows, stride \in {1, 2} :
           \E ch \in [1 .. n -> RowChoice] : df = InputTable(n, ch, stride)
    /\ pc = "groupby"
    /\ todo = GroupKeys(df)
    /\ cur = 0
    /\ gidx = << >>
    /\ kfilter = NoFilter
    /\ bkeys = << >>
    /\ brows = << >>
    /\ zs = << >>
    /\ m = << >>
    /\ c = << >>
    /\ ms = << >>
    /\ cs = << >>
    /\ mu = << >>
    /\ cov = << >>
    /\ err = ""
    /\ steps = << >>
    /\ smooths = << >>
    /\ MapperIdle
    /\ ToolIdle

-----------------------------------------------------------------------------
(* kalman(df), lines 75-97, and run_filter(kfilter, df), lines 62-73 *)

runvars == <<bkeys, brows, zs, m, c, ms, cs>>

\* A write to the first row of idx only.
LocAssignHead(d, idx, col, vals) ==
    [i \in DOMAIN d |->
        IF idx # << >> /\ idx[1] = i
        THEN IF col = "kalman" THEN [d[i] EXCEPT !.kalman = <<vals[1]>>]
             ELSE [d[i] EXCEPT !.rts = <<vals[1]>>]
        ELSE d[i]]

\* df.loc[idx, col] = vals: the k-th value goes to the row at idx[k]; a
\* value list of another length than idx is pandas' ValueError (no write).
LocAssign(d, idx, col, vals) ==
    [i \in DOMAIN d |->
        IF \E k \in DOMAIN idx : idx[k] = i
        THEN LET k == CHOOSE k \in DOMAIN idx : idx[k] = i
             IN  IF col = "kalman" THEN [d[i] EXCEPT !.kalman = <<vals[k]>>]
                 ELSE [d[i] EXCEPT !.rts = <<vals[k]>>]
        ELSE d[i]]

\* Line 76, the loop is exhausted; line 97, return df.
KalmanReturn ==
    /\ pc = "groupby"
    /\ todo = << >>
    /\ pc' = "done"
    /\ UNCHANGED <<df, todo, cur, gidx, kfilter, runvars, mu, cov, err, steps,
                   smooths, mvars, tvars>>

\* Line 76: the next (trackingId, gdf) of the groupby.
KalmanNextTrack ==
    /\ pc = "groupby"
    /\ todo # << >>
    /\ cur' = Head(todo)
    /\ todo' = Tail(todo)
    /\ gidx' = GroupIndex(df, Head(todo))
    /\ pc' = "seed"
    /\ UNCHANGED <<df, kfilter, runvars, mu, cov, err, steps, smooths, mvars, tvars>>

\* Lines 77-79 on a track without a row that has both x and y: .iloc[0] of
\* an empty selection raises IndexError, which nothing catches.
SeedRaise ==
    /\ pc = "seed"
    /\ StartIdx(df, gidx) = << >>
    /\ err' = "IndexError"
    /\ pc' = "raised"
    /\ UNCHANGED <<df, todo, cur, gidx, kfilter, runvars, mu, cov, steps,
                   smooths, mvars, tvars>>

\* One filter object kept for all tracks, built for the first of them.
SeedFilterShared(d, idx) ==
    IF kfilter.x # << >> THEN kfilter
    ELSE LET first == idx[StartIdx(d, idx)[1]]
         IN  kalman_filter(d[first].x, d[first].y)

\* The filter a track starts with (lines 77-80).
SeedFilter(d, idx) ==
    LET first == idx[StartIdx(d, idx)[1]]
    IN  kalman_filter(d[first].x, d[first].y)

\* Lines 77-81: seed a fresh filter at the first row with x and y, and call
\* run_filter (lines 63-65).
Seed ==
    /\ pc = "seed"
    /\ StartIdx(df, gidx) # << >>
    /\ kfilter' = SeedFilter(df, gidx)
    /\ bkeys' = BlockKeys(df, gidx)
    /\ ms' = << >>
    /\ cs' = << >>
    /\ brows' = << >>
    /\ zs' = << >>
    /\ m' = << >>
    /\ c' = << >>
    /\ pc' = "run_filter"
    /\ UNCHANGED <<df, todo, cur, gidx, mu, cov, err, steps, smooths, mvars, tvars>>

\* Lines 66-70: the next block of the groupby, and the call of batch_filter
\* on the filter object kf.
RunFilterBlockOn(kf) ==
    /\ pc = "run_filter"
    /\ bkeys # << >>
    /\ LET rows == BlockRows(df, gidx, Head(bkeys))
       IN  /\ brows' = rows
           /\ zs' = BatchInput(df, rows)
    /\ bkeys' = Tail(bkeys)
    /\ kfilter' = kf
    /\ m' = << >>
    /\ c' = << >>
    /\ pc' = "batch_filter"
    /\ UNCHANGED <<df, todo, cur, gidx, ms, cs, mu, cov, err, steps, smooths,
                   mvars, tvars>>

\* run_filter with a filter rebuilt for every block.
RunFilterBlockReset == RunFilterBlockOn(SeedFilter(df, gidx))

\* run_filter passes the one filter object of the track to every call.
RunFilterBlock == RunFilterBlockOn(kfilter)

\* One iteration of batch_filter's loop: predict, update(z), record the
\* posterior; after the last one batch_filter returns and lines 71-72 append
\* its means and covariances.
BatchFilterStep ==
    /\ pc = "batch_filter"
    /\ zs # << >>
    /\ LET z    == Head(zs)
           post == Update(Predict(kfilter), z)
           mm   == Append(m, post.x)
           cc   == Append(c, post.P)
       IN  /\ kfilter' = post
           /\ steps' = Append(steps,
                  [track |-> cur, row |-> brows[Len(m) + 1],
                   block |-> Len(ms) + 1, z |-> z,
                   prior |-> kfilter, post |-> post])
           /\ zs' = Tail(zs)
           /\ IF Tail(zs) = << >>
              THEN /\ ms' = Append(ms, mm)
                   /\ cs' = Append(cs, cc)
                   /\ m' = << >>
                   /\ c' = << >>
                   /\ pc' = "run_filter"
              ELSE /\ m' = mm
                   /\ c' = cc
                   /\ UNCHANGED <<ms, cs, pc>>
    /\ UNCHANGED <<df, todo, cur, gidx, bkeys, brows, mu, cov, err, smooths,
                   mvars, tvars>>

\* Line 73: return np.vstack(ms), np.vstack(cs).
RunFilterReturn ==
    /\ pc = "run_filter"
    /\ bkeys = << >>
    /\ mu' = VStack(ms)
    /\ cov' = VStack(cs)
    /\ pc' = "write"
    /\ UNCHANGED <<df, todo, cur, gidx, kfilter, runvars, err, steps, smooths,
                   mvars, tvars>>

\* Lines 83-88: the forward estimates go to the track's rows.
WriteForward ==
    /\ pc = "write"
    /\ IF Len(mu) = Len(gidx)
       THEN /\ df' = LocAssign(df, gidx, "kalman", mu)
            /\ pc' = "smooth"
            /\ err' = err
       ELSE /\ err' = "ValueError"
            /\ pc' = "raised"
            /\ df' = df
    /\ UNCHANGED <<todo, cur, gidx, kfilter, runvars, mu, cov, steps, smooths,
                   mvars, tvars>>

\* The per-run smoothing the code does not do: one rts_smoother call for
\* every run of the track.
SmootherCallsPerRun(wholeMu, wholeCov, runMus, runCovs) ==
    [i \in DOMAIN runMus |-> [mu |-> runMus[i], cov |-> runCovs[i]]]

\* Line 90: the rts_smoother calls made for a track, each with its arguments:
\* one call, on the whole forward sequence run_filter returned.
SmootherCalls(wholeMu, wholeCov, runMus, runCovs) ==
    << [mu |-> wholeMu, cov |-> wholeCov] >>

\* Lines 90-96: smooth the forward sequence and write the smoothed estimates
\* to the track's rows.
Smooth ==
    /\ pc = "smooth"
    /\ LET calls  == SmootherCalls(mu, cov, ms, cs)
           outs   == [k \in DOMAIN calls |->
                         RtsSmoother(calls[k].mu, calls[k].cov)]
           mu_rts == VStack(outs)
           done   == Len(SelectSeq(steps, LAMBDA s : s.track = cur))
       IN  /\ smooths' = smooths \o
                  [k \in DOMAIN calls |->
                      [track |-> cur, mu |-> calls[k].mu, cov |-> calls[k].cov,
                       mu_rts |-> outs[k], nsteps |-> done]]
           /\ IF Len(mu_rts) = Len(gidx)
              THEN /\ df' = LocAssign(df, gidx, "rts", mu_rts)
                   /\ pc' = "groupby"
                   /\ err' = err
              ELSE /\ err' = "ValueError"
                   /\ pc' = "raised"
                   /\ df' = df
    /\ UNCHANGED <<todo, cur, gidx, kfilter, runvars, mu, cov, steps, mvars, tvars>>

NextKalman ==
    \/ KalmanReturn
    \/ KalmanNextTrack
    \/ SeedRaise
    \/ Seed
    \/ RunFilterBlock
    \/ BatchFilterStep
    \/ RunFilterReturn
    \/ WriteForward
    \/ Smooth

SpecKalman == InitKalman /\ [][NextKalman]_vars

\* One track of a subject that moves along x: frames 0, 1, 2, ..., with x one
\* of 0 and 2 or missing, and y 0 or missing.
GapChoice == [x : {NaN, 0, 2}, y : {NaN, 0}]

GapTable(n, ch) ==
    [i \in 1 .. n |->
        [trackingId |-> 1, frame |-> i - 1, x |-> ch[i].x, y |-> ch[i].y,
         kalman |-> << >>, rts |-> << >>]]

InitGap ==
    /\ \E n \in 1 .. MaxRows :
           \E ch \in [1 .. n -> GapChoice] : df = GapTable(n, ch)
    /\ pc = "groupby"
    /\ todo = GroupKeys(df)
    /\ cur = 0
    /\ gidx = << >>
    /\ kfilter = NoFilter
    /\ bkeys = << >>
    /\ brows = << >>
    /\ zs = << >>
    /\ m = << >>
    /\ c = << >>
    /\ ms = << >>
    /\ cs = << >>
    /\ mu = << >>
    /\ cov = << >>
    /\ err = ""
    /\ steps = << >>
    /\ smooths = << >>
    /\ MapperIdle
    /\ ToolIdle

SpecGap == InitGap /\ [][NextKalman]_vars

-----------------------------------------------------------------------------
(* Properties of kalman and run_filter *)

\* The track ids of the table.
Tracks == {df[i].trackingId : i \in DOMAIN df}

\* A row's measurement is present: neither x nor y is missing.
Present(r) == ~isna(r.x) /\ ~isna(r.y)

\* The df positions of the rows of track t, in row order.
RowsOf(t) == SortedSeq({i \in DOMAIN df : df[i].trackingId = t})

\* No row of track t has a present measurement.
AllMissing(t) == \A i \in DOMAIN df : df[i].trackingId = t => ~Present(df[i])

\* The filter steps taken for track t, in the order taken.
TrackSteps(t) == SelectSeq(steps, LAMBDA s : s.track = t)

\* The rts_smoother calls made for track t.
TrackSmooths(t) == SelectSeq(smooths, LAMBDA e : e.track = t)

\* How far kalman is with track t.
Stage(t) ==
    IF \E i \in DOMAIN todo : todo[i] = t THEN "todo"
    ELSE IF t = cur /\ pc \notin {"groupby", "done"} THEN pc
    ELSE "finished"

\* A step that predicted and updated with z / that only predicted.
IsUpdateStep(s, z) == s.z = z /\ s.post = Update(Predict(s.prior), z)
IsPredictOnlyStep(s) == s.z = None /\ s.post = Predict(s.prior)

\* C1: at every run boundary of every track, the prior (state and
\* covariance) of the first step of the run is the posterior of the last step
\* of the run before it.
C1_NoResetBetweenRuns ==
    \A t \in Tracks :
        LET ts == TrackSteps(t)
        IN  \A k \in 1 .. Len(ts) - 1 :
                ts[k].block # ts[k + 1].block =>
                    /\ ts[k + 1].prior.x = ts[k].post.x
                    /\ ts[k + 1].prior.P = ts[k].post.P

\* A track went from a run with measurements into a run without, and from a
\* run without into a run with.
C1_Witness ==
    \E t \in Tracks :
        LET ts == TrackSteps(t)
        IN  /\ \E k \in 1 .. Len(ts) - 1 :
                   /\ ts[k].block # ts[k + 1].block
                   /\ ts[k].z # None /\ ts[k + 1].z = None
            /\ \E k \in 1 .. Len(ts) - 1 :
                   /\ ts[k].block # ts[k + 1].block
                   /\ ts[k].z = None /\ ts[k + 1].z # None

\* C2: every step taken for a row predicts and updates with the row's (x, y)
\* when the row's measurement is present, and only predicts when x or y is
\* missing.
C2_StepFollowsRow ==
    \A k \in DOMAIN steps :
        LET r == df[steps[k].row]
        IN  IF Present(r) THEN IsUpdateStep(steps[k], <<r.x, r.y>>)
            ELSE IsPredictOnlyStep(steps[k])

\* C3: once run_filter has returned for a track it has taken exactly one step
\* per row, in row order, and returned the steps' posteriors in that order;
\* once kalman has written them, the i-th row holds the i-th mean.
C3_OnePairPerRow ==
    \A t \in Tracks :
        LET idx == RowsOf(t)
            ts  == TrackSteps(t)
        IN  /\ Stage(t) \in {"write", "smooth", "finished"} =>
                   /\ Len(ts) = Len(idx)
                   /\ \A i \in DOMAIN idx : ts[i].row = idx[i]
            /\ Stage(t) \in {"write", "smooth"} =>
                   /\ mu = [i \in DOMAIN ts |-> ts[i].post.x]
                   /\ cov = [i \in DOMAIN ts |-> ts[i].post.P]
            /\ Stage(t) \in {"smooth", "finished"} =>
                   \A i \in DOMAIN idx : df[idx[i]].kalman = <<ts[i].post.x>>

\* kalman returned after a track of three rows with present and missing
\* measurements.
C3_Witness ==
    /\ pc = "done"
    /\ \E t \in Tracks :
           /\ Len(RowsOf(t)) >= 3
           /\ \E i \in DOMAIN df : df[i].trackingId = t /\ Present(df[i])
           /\ \E i \in DOMAIN df : df[i].trackingId = t /\ ~Present(df[i])
           /\ \A i \in DOMAIN df : df[i].trackingId = t => df[i].kalman # << >>

\* The frames of the rows of track t.
FramesOf(t) == {df[i].frame : i \in {j \in DOMAIN df : df[j].trackingId = t}}

\* The frames of track t for which the table holds a forward and a smoothed
\* estimate.
FramesWithOutput(t) ==
    {df[i].frame : i \in {j \in DOMAIN df :
        /\ df[j].trackingId = t
        /\ df[j].kalman # << >>
        /\ df[j].rts # << >>}}

Min(S) == CHOOSE a \in S : \A b \in S : a <= b
Max(S) == CHOOSE a \in S : \A b \in S : a >= b

\* C4, as claimed: a processed track has a forward and a smoothed estimate
\* for every frame index from its first frame to its last.
C4_EveryFrameOfSpan ==
    \A t \in Tracks :
        Stage(t) = "finished" =>
            \A f \in Min(FramesOf(t)) .. Max(FramesOf(t)) :
                f \in FramesWithOutput(t)

\* C4, amended: a processed track has a forward and a smoothed value for
\* exactly the frames of its rows.
C4_EveryRowOfTrack ==
    \A t \in Tracks :
        Stage(t) = "finished" =>
            /\ \A i \in DOMAIN df :
                   df[i].trackingId = t =>
                       df[i].kalman # << >> /\ df[i].rts # << >>
            /\ FramesWithOutput(t) = FramesOf(t)

\* A processed track whose span holds a frame index without a row.
C4_Witness ==
    \E t \in Tracks :
        /\ Stage(t) = "finished"
        /\ \E f \in Min(FramesOf(t)) .. Max(FramesOf(t)) : f \notin FramesOf(t)

\* C5: when kalman has ended, every track with a present measurement has its
\* output, whatever happened to the other tracks.
C5_FailureIsolated ==
    pc \in {"done", "raised"} =>
        \A t \in Tracks :
            ~AllMissing(t) =>
                \A i \in DOMAIN df :
                    df[i].trackingId = t =>
                        df[i].kalman # << >> /\ df[i].rts # << >>

\* C6: a track without a present measurement fails with an
\* UninitializedTrackError and no filter step is run for it.
C6_UninitializedTrackError ==
    \A t \in Tracks :
        AllMissing(t) =>
            /\ TrackSteps(t) = << >>
            /\ Stage(t) \in {"todo", "seed", "raised"}
            /\ Stage(t) = "raised" => err = "UninitializedTrackError"

\* The (x, y) values of the rows of track t, in row order: all of the table
\* that belongs to the track, without ids, frames or positions.
XY(t) == [i \in DOMAIN RowsOf(t) |-> <<df[RowsOf(t)[i]].x, df[RowsOf(t)[i]].y>>]

\* The first row of the run of row i: runs are the maximal stretches of rows
\* whose x is missing, or whose x is there.
RunStart(xy, i) ==
    Max({j \in 1 .. i : j = 1 \/ (isna(xy[j][1]) # isna(xy[j - 1][1]))})

\* What the filter is fed for row i of a track with the values xy.
Fed(xy, i) ==
    LET j == RunStart(xy, i)
    IN  IF isna(xy[j][1]) \/ isna(xy[j][2]) THEN None ELSE xy[i]

\* The filter after each row of a track with the values xy, as a function of
\* xy alone.
ForwardOf(xy) ==
    LET first == Min({i \in DOMAIN xy : ~isna(xy[i][1]) /\ ~isna(xy[i][2])})
        S[i \in 0 .. Len(xy)] ==
            IF i = 0 THEN kalman_filter(xy[first][1], xy[first][2])
            ELSE Update(Predict(S[i - 1]), Fed(xy, i))
    IN  [i \in DOMAIN xy |-> S[i]]

\* The smoothed estimates of a track with the values xy.
SmoothedOf(xy) ==
    LET f == ForwardOf(xy)
    IN  RtsSmoother([i \in DOMAIN f |-> f[i].x], [i \in DOMAIN f |-> f[i].P])

\* The outputs of every row are unset or what the row's own track alone
\* determines.
C7_OwnRowsOnly ==
    \A t \in Tracks :
        \A i \in DOMAIN RowsOf(t) :
            LET r == df[RowsOf(t)[i]]
            IN  /\ r.kalman # << >> => r.kalman = <<ForwardOf(XY(t))[i].x>>
                /\ r.rts # << >> => r.rts = <<SmoothedOf(XY(t))[i]>>
                /\ Stage(t) = "finished" => r.kalman # << >> /\ r.rts # << >>
                /\ Stage(t) = "todo" => r.kalman = << >> /\ r.rts = << >>

\* A step of kalman changes no input column, and no row of a track other
\* than the one being processed.
C7_OtherTracksUntouched ==
    /\ DOMAIN df' = DOMAIN df
    /\ \A i \in DOMAIN df :
           /\ df'[i].trackingId = df[i].trackingId
           /\ df'[i].frame = df[i].frame
           /\ df'[i].x = df[i].x
           /\ df'[i].y = df[i].y
           /\ df[i].trackingId # cur => df'[i] = df[i]

\* C7: the outputs of a track are a function of the track's own rows, and
\* processing a track changes neither the input nor another track's rows;
\* so the tracks' position in the iteration does not matter.
C7_TracksIndependent == [](C7_OwnRowsOnly) /\ [][C7_OtherTracksUntouched]_vars

\* kalman returned for a table of two tracks, the second of them with two
\* rows.
C7_Witness ==
    /\ pc = "done"
    /\ Cardinality(Tracks) = 2
    /\ Len(RowsOf(Max(Tracks))) >= 2
    /\ \A i \in DOMAIN df : df[i].kalman # << >> /\ df[i].rts # << >>

\* C8: rts_smoother is called at most once for a track, not before the
\* forward filter has stepped through all rows of the track, on the complete
\* forward sequence; a processed track has had its one call, and its i-th row
\* holds the i-th smoothed estimate of a sequence as long as the forward one.
C8_SmoothOnceOnWholeTrack ==
    \A t \in Tracks :
        LET idx == RowsOf(t)
            ts  == TrackSteps(t)
            es  == TrackSmooths(t)
        IN  /\ Len(es) <= 1
            /\ Stage(t) = "finished" => Len(es) = 1
            /\ Stage(t) \in {"todo", "seed", "run_filter", "batch_filter",
                             "write", "smooth"} => Len(es) = 0
            /\ \A k \in DOMAIN es :
                   /\ es[k].nsteps = Len(idx)
                   /\ Len(ts) = Len(idx)
                   /\ es[k].mu = [i \in DOMAIN idx |-> ts[i].post.x]
                   /\ es[k].cov = [i \in DOMAIN idx |-> ts[i].post.P]
                   /\ Len(es[k].mu_rts) = Len(es[k].mu)
                   /\ Stage(t) = "finished" =>
                          \A i \in DOMAIN idx :
                              df[idx[i]].rts = <<es[k].mu_rts[i]>>

\* A track of several runs has been smoothed.
C8_Witness ==
    \E t \in Tracks :
        /\ Stage(t) = "finished"
        /\ Len(TrackSmooths(t)) = 1
        /\ \E k \in DOMAIN steps :
               steps[k].track = t /\ steps[k].block >= 2

\* The first row of track t, in row order, with x and y both present.
FirstPresent(t) ==
    LET rows == RowsOf(t)
        k == CHOOSE i \in DOMAIN rows :
                 /\ Present(df[rows[i]])
                 /\ \A j \in 1 .. i - 1 : ~Present(df[rows[j]])
    IN  df[rows[k]]

\* C15: the filter a track's first step starts from is a fresh one, its
\* state the position of the first row of the track with x and y both
\* present, with zero velocity and acceleration on both axes, and its
\* covariance the initial one.
C15_SeedAtFirstPresentRow ==
    \A t \in Tracks :
        TrackSteps(t) # << >> =>
            LET r == FirstPresent(t)
                prior == TrackSteps(t)[1].prior
            IN  /\ ~AllMissing(t)
                /\ prior = kalman_filter(r.x, r.y)
                /\ Mean(prior.x) = Known(<<r.x, 0, 0, r.y, 0, 0>>)
                /\ prior.P = << "init" >>

\* A track that begins with a row without measurement, then has a row with
\* x but no y, was seeded from a later row and has taken its first step.
C15_Witness ==
    \E t \in Tracks :
        /\ TrackSteps(t) # << >>
        /\ Len(RowsOf(t)) >= 3
        /\ isna(df[RowsOf(t)[1]].x)
        /\ isna(df[RowsOf(t)[1]].y)
        /\ ~isna(df[RowsOf(t)[2]].x)
        /\ isna(df[RowsOf(t)[2]].y)
        /\ TrackSteps(t)[1].prior = kalman_filter(df[RowsOf(t)[3]].x,
                                                  df[RowsOf(t)[3]].y)

\* The table is the track (frame 0: x = 0, y = 0), (frame 1: missing),
\* (frame 2: x = 2, y = 0), and the filter has taken the step of frame 1.
GapScenario ==
    /\ Len(df) = 3
    /\ <<df[1].x, df[1].y>> = <<0, 0>>
    /\ isna(df[2].x)
    /\ <<df[3].x, df[3].y>> = <<2, 0>>
    /\ Len(steps) >= 2

\* a is within half a unit of b.
Near(a, b) == 2 * (IF a > b THEN a - b ELSE b - a) <= 1

\* C13 as stated: in the scenario the forward estimate at frame 1 is near
\* x = 1, y = 0.
C13_EstimateNearOne ==
    GapScenario =>
        LET e == Mean(steps[2].post.x)
        IN  e.known => (Near(e.v[1], 1) /\ Near(e.v[4], 0))

\* C13: in the scenario the forward estimate at frame 1 is the seed, x = 0,
\* y = 0 with zero velocity and acceleration: the measurement of frame 0
\* equals it, and frame 1 is predicted only.
C13_EstimateIsSeed ==
    GapScenario =>
        /\ steps[2].z = None
        /\ Mean(steps[2].post.x) = Known(<<0, 0, 0, 0, 0, 0>>)

\* The scenario has run to the end, the forward estimate of frame 1 written
\* to the table.
C13_Witness ==
    /\ GapScenario
    /\ pc = "done"
    /\ df[2].kalman # << >>

\* Covariance P2 may be of larger position uncertainty than P1, by the
\* variance of the position or by the trace: it is another covariance, and
\* its value is not known to be at most that of P1.
MayExceed(P2, P1) ==
    /\ P2 # P1
    /\ (Cov(P2).known /\ Cov(P1).known) =>
           \/ PosVar(Cov(P2))[2] > PosVar(Cov(P1))[1]
           \/ Trace(Cov(P2))[2] > Trace(Cov(P1))[1]

\* Covariance P2 is of larger position variance than P1 for certain.
Exceeds(P2, P1) ==
    /\ Cov(P2).known
    /\ Cov(P1).known
    /\ PosVar(Cov(P2))[1] > PosVar(Cov(P1))[2]

\* The covariance the step would have left had its frame been measured.
HadMeasured(s) == Update(Predict(s.prior), <<0, 0>>).P

\* C14: from a frame without measurement to the next frame without
\* measurement the position uncertainty grows, and at a single frame without
\* measurement between two frames with one it is larger than it would be had
\* the frame been measured.
C14_UncertaintyGrowsInGaps ==
    \A t \in Tracks :
        LET ts == TrackSteps(t)
            rows == RowsOf(t)
        IN  \A k \in 2 .. Len(ts) :
                /\ (~Present(df[rows[k - 1]]) /\ ~Present(df[rows[k]])) =>
                       MayExceed(ts[k].post.P, ts[k - 1].post.P)
                /\ (/\ k < Len(rows)
                    /\ Present(df[rows[k - 1]])
                    /\ ~Present(df[rows[k]])
                    /\ Present(df[rows[k + 1]])) =>
                       MayExceed(ts[k].post.P, HadMeasured(ts[k]))

-----------------------------------------------------------------------------
(* pixelmapper.py: class PixelMapper, lines 169-195 *)

\* Pixel coordinates of the points of a batch.
Pixels == {<<0, 0>>, <<100, 0>>, <<50, 50>>}

\* Camera matrices (fx, fy, cx, cy) and distortion coefficients of an
\* intrinsic calibration.
IntrinsicMtx == <<2, 2, 1, 1>>
Distortion == <<1, 0, 0, 0>>
NewCameraMtx == <<3, 3, 1, 1>>

\* 3 x 3 homographies: the unit-square fit of the specification (pixel / 100),
\* a shear, and a singular matrix.
Homographies ==
    {<< <<1, 0, 0>>, <<0, 1, 0>>, <<0, 0, 100>> >>,
     << <<1, 1, 0>>, <<0, 1, 0>>, <<0, 0, 1>> >>,
     << <<1, 2, 0>>, <<2, 4, 0>>, <<0, 0, 1>> >>}

\* A point of a batch: the coordinates and the chain of OpenCV transforms
\* applied to them so far.
Pixel(p) == << [op |-> "pixel", with |-> <<p>>] >>

\* The batches of shape (n, 1, 2) a caller builds with .reshape(-1, 1, 2).
Batches ==
    UNION {[1 .. n -> {<<Pixel(p)>> : p \in Pixels}] : n \in 0 .. MaxPoints}

Return(v) == [kind |-> "return", val |-> v]
Raise(e) == [kind |-> "raise", val |-> e]

\* The attributes a PixelMapper object has: its fields (lines 176-180) and
\* the methods of the class (lines 170, 182, 189).
Attributes ==
    {"intrinsic_mtx", "distortion", "newcameramtx", "homography", "fisheye",
     "__init__", "undistort", "__call__"}

\* PixelMapper.__init__, lines 170-180.
PixelMapperInit(intrinsic_mtx, distortion, newcameramtx, homography, fisheye) ==
    [intrinsic_mtx |-> intrinsic_mtx, distortion |-> distortion,
     newcameramtx |-> newcameramtx, homography |-> homography,
     fisheye |-> fisheye]

\* cv.undistortPoints / cv.fisheye.undistortPoints(X, K, D, None, P): every
\* point of the batch is corrected, in place in the batch.
UndistortPoints(X, name, K, D, P) ==
    [i \in DOMAIN X |->
        [j \in DOMAIN X[i] |->
            Append(X[i][j], [op |-> name, with |-> <<K, D, P>>])]]

\* cv.perspectiveTransform(X, h): every point of the batch is mapped by h.
PerspectiveTransform(X, h) ==
    [i \in DOMAIN X |->
        [j \in DOMAIN X[i] |->
            Append(X[i][j], [op |-> "perspectiveTransform", with |-> <<h>>])]]

\* PixelMapper.undistort, lines 182-187.
undistort(self, X) ==
    IF self.intrinsic_mtx # None
    THEN IF self.fisheye
         THEN UndistortPoints(X, "fisheye.undistortPoints", self.intrinsic_mtx,
                              self.distortion, self.newcameramtx)
         ELSE UndistortPoints(X, "undistortPoints", self.intrinsic_mtx,
                              self.distortion, self.newcameramtx)
    ELSE X

\* X[:, 0, :]
Column0(X) == [i \in DOMAIN X |-> X[i][1]]

\* __call__ without the distortion correction.
CallInputRaw(self, X) == X

\* The batch __call__ hands to cv.perspectiveTransform, lines 193-194.
CallInput(self, X) ==
    IF self.intrinsic_mtx # None THEN undistort(self, X) ELSE X

\* PixelMapper.__call__, lines 189-195; cv.perspectiveTransform raises
\* cv.error for a matrix that is None.
Call(self, X) ==
    IF self.homography = None
    THEN Raise("cv.error")
    ELSE Return(Column0(PerspectiveTransform(CallInput(self, X), self.homography)))

\* pm.<name>(X): Python's attribute lookup, then the call.
Invoke(self, name, X) ==
    IF name \notin Attributes THEN Raise("AttributeError")
    ELSE IF name = "__call__" THEN Call(self, X)
    ELSE Return(undistort(self, X))

\* No call remembered: none made yet, or the caller has assigned a field of
\* the mapper since.
NoRef == [name |-> "", X |-> << >>, out |-> Return(<< >>), n |-> 0]

\* The mapper a caller builds: with or without an intrinsic calibration
\* (lines 217-224), with or without a homography (lines 56-62).
Construct ==
    /\ mpc = "new"
    /\ \E withIntrinsic \in BOOLEAN, fisheye \in BOOLEAN,
          h \in Homographies \cup {None} :
           pm' = IF withIntrinsic
                 THEN PixelMapperInit(IntrinsicMtx, Distortion, NewCameraMtx, h,
                                      fisheye)
                 ELSE PixelMapperInit(None, None, None, h, FALSE)
    /\ mpc' = "ready"
    /\ UNCHANGED <<arg, res, ref, cal, kvars, tvars>>

\* Line 240: pm.homography = pixel2world_homography, the matrix
\* cv.findHomography returned (None when it found none).
SetHomography ==
    /\ mpc = "ready"
    /\ \E h \in Homographies \cup {None} : pm' = [pm EXCEPT !.homography = h]
    /\ ref' = NoRef
    /\ UNCHANGED <<mpc, arg, res, cal, kvars, tvars>>

\* A call's record: the method, the batch, the mapper as it was before and
\* as it is after, and for a round trip the batch the forward call was given.
CallRecord(name, X, trip, of, after) ==
    [name |-> name, X |-> X, self |-> pm, trip |-> trip, of |-> of,
     after |-> after]

\* The batches whose calls are remembered: those of one point.
Probes == {<< <<Pixel(p)>> >> : p \in Pixels}

\* The remembered call after one more call: n counts the calls made since
\* it (2 stands for two or more).
Aged ==
    IF ref.name = "" THEN ref
    ELSE [ref EXCEPT !.n = IF ref.n < 2 THEN ref.n + 1 ELSE ref.n]

\* After a call of method name on X that gave out, either that call is
\* remembered or the one remembered before.
Remember(name, X, out) ==
    {Aged} \cup
    (IF X \in Probes THEN {[name |-> name, X |-> X, out |-> out, n |-> 0]}
     ELSE {})

\* A mapper whose forward call drops the calibration it has applied.
FieldsAfterCallOnce(self, name, X) ==
    IF name = "__call__" THEN [self EXCEPT !.intrinsic_mtx = None] ELSE self

\* The mapper's fields after undistort or __call__, lines 182-195: neither
\* body assigns to an attribute of self (X = self.undistort(X) rebinds the
\* parameter), and OpenCV is handed the fields as inputs only.
FieldsAfterCall(self, name, X) == self

\* pm(X), lines 64 and 245.
CallForward ==
    /\ mpc = "ready"
    /\ \E X \in Batches :
           /\ pm' = FieldsAfterCall(pm, "__call__", X)
           /\ arg' = CallRecord("__call__", X, FALSE, << >>, pm')
           /\ res' = Invoke(pm, "__call__", X)
           /\ ref' \in Remember("__call__", X, res')
    /\ UNCHANGED <<mpc, cal, kvars, tvars>>

\* pm.undistort(X), line 239.
CallUndistort ==
    /\ mpc = "ready"
    /\ \E X \in Batches :
           /\ pm' = FieldsAfterCall(pm, "undistort", X)
           /\ arg' = CallRecord("undistort", X, FALSE, << >>, pm')
           /\ res' = Invoke(pm, "undistort", X)
           /\ ref' \in Remember("undistort", X, res')
    /\ UNCHANGED <<mpc, cal, kvars, tvars>>

\* What a forward call returned, as a batch: .reshape(-1, 1, 2).
Reshape(pts) == [i \in DOMAIN pts |-> <<pts[i]>>]

\* pm.inv(X), line 65 of the module header's guide: on a batch of world
\* points, or (a round trip) on what pm(X) has just returned.
CallInv ==
    /\ mpc = "ready"
    /\ \E trip \in IF arg.name = "__call__" /\ res.kind = "return" /\ arg.self = pm
                   THEN BOOLEAN ELSE {FALSE} :
           \E X \in IF trip THEN {Reshape(res.val)} ELSE Batches :
               /\ arg' = CallRecord("inv", X, trip,
                                    IF trip THEN arg.X ELSE << >>, pm)
               /\ res' = Invoke(pm, "inv", X)
               /\ ref' = Aged
    /\ UNCHANGED <<pm, mpc, cal, kvars, tvars>>

KalmanIdle ==
    /\ df = << >>
    /\ pc = "off"
    /\ todo = << >>
    /\ cur = 0
    /\ gidx = << >>
    /\ kfilter = NoFilter
    /\ bkeys = << >>
    /\ brows = << >>
    /\ zs = << >>
    /\ m = << >>
    /\ c = << >>
    /\ ms = << >>
    /\ cs = << >>
    /\ mu = << >>
    /\ cov = << >>
    /\ err = ""
    /\ steps = << >>
    /\ smooths = << >>

InitMapper ==
    /\ pm = << >>
    /\ mpc = "new"
    /\ arg = [name |-> "", X |-> << >>, self |-> << >>, trip |-> FALSE,
              of |-> << >>, after |-> << >>]
    /\ res = Return(<< >>)
    /\ ref = NoRef
    /\ cal = << >>
    /\ KalmanIdle
    /\ ToolIdle

NextMapper ==
    \/ Construct
    \/ SetHomography
    \/ CallForward
    \/ CallUndistort
    \/ CallInv

SpecMapper == InitMapper /\ [][NextMapper]_vars

-----------------------------------------------------------------------------
(* pixelmapper.py: extrinsic_calibration, lines 209-261 *)

\* The correspondence files given as --input: rows (px, py, wx, wy), the
\* world a hundredth of the pixel.  The first two are in general position,
\* the points of the last two lie on one line.
CalibPixels ==
    {<< <<0, 0>>, <<100, 0>>, <<100, 100>>, <<0, 100>> >>,
     << <<0, 0>>, <<200, 0>>, <<100, 100>>, <<0, 100>> >>,
     << <<0, 0>>, <<100, 0>>, <<200, 0>>, <<300, 0>> >>,
     << <<0, 0>>, <<100, 100>>, <<200, 200>>, <<300, 300>> >>}

CalibRow(p) == [px |-> p[1], py |-> p[2], wx |-> p[1] \div 100, wy |-> p[2] \div 100]

CalibTables == {[i \in DOMAIN ps |-> CalibRow(ps[i])] : ps \in CalibPixels}

\* Lines 211-212.
PtsPixels(d) == [i \in DOMAIN d |-> <<d[i].px, d[i].py>>]
PtsWorld(d) == [i \in DOMAIN d |-> <<d[i].wx, d[i].wy>>]

\* pts_pixels.reshape(-1, 1, 2)
PixelBatch(pts) == [i \in DOMAIN pts |-> <<Pixel(pts[i])>>]

\* All points of pts lie on one line.
Collinear(pts) ==
    \A i, j, k \in DOMAIN pts :
        (pts[j][1] - pts[i][1]) * (pts[k][2] - pts[i][2]) =
        (pts[j][2] - pts[i][2]) * (pts[k][1] - pts[i][1])

\* Determinant of a 3 x 3 matrix.
Det(h) ==
    h[1][1] * (h[2][2] * h[3][3] - h[2][3] * h[3][2])
    - h[1][2] * (h[2][1] * h[3][3] - h[2][3] * h[3][1])
    + h[1][3] * (h[2][1] * h[3][2] - h[2][2] * h[3][1])

\* A matrix that is no homography: none, or a non-invertible one.
Degenerate(h) == h = None \/ Det(h) = 0

\* _extrinsic_calibration, lines 94-96: what cv.findHomography(pts_src,
\* pts_dst, cv.RANSAC, 5.0) may return, handed on as it is.  For points in
\* general position it is an invertible matrix; for points on one line the
\* fit is not determined, and OpenCV returns no matrix or whatever matrix its
\* solver ended with.
ExtrinsicCalibrationOf(pts_dst) ==
    IF Collinear(pts_dst)
    THEN Homographies \cup {None}
    ELSE {h \in Homographies : Det(h) # 0}

\* No file at the --output path.
Absent == [exists |-> FALSE]

\* The locals still unbound.
Unbound == <<"unbound">>

\* Lines 210-212: the correspondences are read.
InitCalib ==
    /\ \E d \in CalibTables :
           cal = [df |-> d, pixel2world_homography |-> Unbound,
                  world_coords |-> Unbound, file |-> Absent, err |-> ""]
    /\ pm = << >>
    /\ mpc = "construct"
    /\ arg = [name |-> "", X |-> << >>, self |-> << >>, trip |-> FALSE,
              of |-> << >>, after |-> << >>]
    /\ res = Return(<< >>)
    /\ ref = NoRef
    /\ KalmanIdle
    /\ ToolIdle

\* Lines 214-224: the mapper, with the intrinsic calibration when one is
\* given, and no homography yet.
CalibConstruct ==
    /\ mpc = "construct"
    /\ \E withIntrinsic \in BOOLEAN, fisheye \in BOOLEAN :
           pm' = IF withIntrinsic
                 THEN PixelMapperInit(IntrinsicMtx, Distortion, NewCameraMtx,
                                      None, fisheye)
                 ELSE PixelMapperInit(None, None, None, None, FALSE)
    /\ mpc' = "fit"
    /\ UNCHANGED <<arg, res, ref, cal, kvars, tvars>>

\* Line 239: pixel2world_homography = _extrinsic_calibration(
\* pm.undistort(pts_pixels.reshape(-1, 1, 2)), pts_world).
CalibFit ==
    /\ mpc = "fit"
    /\ LET X == PixelBatch(PtsPixels(cal.df)) IN
           /\ pm' = FieldsAfterCall(pm, "undistort", X)
           /\ arg' = CallRecord("undistort", X, FALSE, << >>, pm')
           /\ res' = Invoke(pm, "undistort", X)
    /\ \E h \in ExtrinsicCalibrationOf(PtsWorld(cal.df)) :
           cal' = [cal EXCEPT !.pixel2world_homography = h]
    /\ mpc' = "store"
    /\ UNCHANGED <<ref, kvars, tvars>>

\* Line 240: pm.homography = pixel2world_homography.
CalibStore ==
    /\ mpc = "store"
    /\ pm' = [pm EXCEPT !.homography = cal.pixel2world_homography]
    /\ mpc' = "map"
    /\ UNCHANGED <<arg, res, ref, cal, kvars, tvars>>

\* Line 245: world_coords = pm(pts_pixels.reshape(-1, 1, 2)); an exception
\* of the call ends the command.
CalibMap ==
    /\ mpc = "map"
    /\ LET X == PixelBatch(PtsPixels(cal.df)) IN
           /\ pm' = FieldsAfterCall(pm, "__call__", X)
           /\ arg' = CallRecord("__call__", X, FALSE, << >>, pm')
           /\ res' = Invoke(pm, "__call__", X)
    /\ IF res'.kind = "raise"
       THEN /\ cal' = [cal EXCEPT !.err = res'.val]
            /\ mpc' = "raised"
       ELSE /\ cal' = [cal EXCEPT !.world_coords = res'.val]
            /\ mpc' = "dump"
    /\ UNCHANGED <<ref, kvars, tvars>>

\* Lines 253-261: the fit is written to the output file.
CalibDump ==
    /\ mpc = "dump"
    /\ cal' = [cal EXCEPT !.file =
                  [exists |-> TRUE,
                   pixel2world_homography |-> cal.pixel2world_homography,
                   of |-> cal.world_coords]]
    /\ mpc' = "done"
    /\ UNCHANGED <<pm, arg, res, ref, kvars, tvars>>

NextCalib ==
    \/ CalibConstruct
    \/ CalibFit
    \/ CalibStore
    \/ CalibMap
    \/ CalibDump

SpecCalib == InitCalib /\ [][NextCalib]_vars

-----------------------------------------------------------------------------
(* pixelmapper.py: tie_pixels_to_world, lines 398-563 *)

\* The most landmarks the --input csv has, and the most frames the video.
MaxLandmarks == 3
MaxFrames == 2

\* What cv.waitKey returns: -1 when no key was pressed, else the key's code
\* (lines 488-522 and 552-560); KeyOther is a key the tool has no use for.
KeyNone == -1
KeyQuit == 113
KeyNext == 107
KeyPrev == 106
KeySkip == 115
KeyHide == 104
KeyUndo == 122
KeyEnter == 13
KeyOther == 120
Keys ==
    {KeyNone, KeyQuit, KeyNext, KeyPrev, KeySkip, KeyHide, KeyUndo, KeyEnter,
     KeyOther}

\* Mouse events, and the places on the image the user clicks.
Events == {"EVENT_LBUTTONDOWN", "EVENT_MOUSEMOVE"}
ClickSpots == {<<10, 20>>, <<30, 40>>}

\* Line 399: df, landmark i - 1 (pandas numbers the rows from 0) in row i.
LandmarkTable(n) == [i \in 1 .. n |-> [name |-> i - 1, x |-> i, y |-> 2 * i]]

\* df.index and df.loc[label].
DfIndex == 0 .. Len(landmarks) - 1
DfLoc(label) == landmarks[label + 1]

\* No row.
NoLabel == -1

\* A table to which every assignment adds a row.
LocSetRowAppend(points, label, row) == Append(points, row)

\* Line 473, points_df.loc[label, :] = row: the row with that label is
\* overwritten, and when there is none the row is added at the end.
LocSetRow(points, label, row) ==
    IF \E i \in DOMAIN points : points[i].index = label
    THEN [i \in DOMAIN points |->
             IF points[i].index = label THEN row ELSE points[i]]
    ELSE Append(points, row)

\* points_df.iloc[:-1, :]
DropLast(points) ==
    IF points = << >> THEN << >> ELSE SubSeq(points, 1, Len(points) - 1)

\* points_df.to_csv(output, index=False)
ToCsv(points) ==
    [exists |-> TRUE,
     rows |-> [i \in DOMAIN points |->
                  [name |-> points[i].name, wx |-> points[i].wx,
                   wy |-> points[i].wy, px |-> points[i].px,
                   py |-> points[i].py]]]

Max0(n) == IF n > 0 THEN n ELSE 0

\* Lines 399-421: the landmarks are read, the video is opened and its first
\* frame read.
InitTool ==
    /\ \E n \in 2 .. MaxLandmarks : landmarks = LandmarkTable(n)
    /\ video \in 1 .. MaxFrames
    /\ points_df = << >>
    /\ current_point = 0
    /\ show_instruction = TRUE
    /\ frame_index = 0
    /\ cap = 1
    /\ frame = 0
    /\ points_before_loop = 0
    /\ tpc = "loop"
    /\ output = Absent
    /\ handled = [key |-> KeyNone, added |-> FALSE, before |-> 0,
                  removed |-> NoLabel]
    /\ KalmanIdle
    /\ MapperIdle

\* Lines 479-480: the loop's test, and points_before_loop = len(points_df).
LoopTop ==
    /\ tpc = "loop"
    /\ IF current_point # Len(landmarks)
       THEN /\ points_before_loop' = Len(points_df)
            /\ tpc' = "waitKey"
       ELSE /\ tpc' = "watch"
            /\ UNCHANGED points_before_loop
    /\ UNCHANGED <<landmarks, video, points_df, current_point,
                   show_instruction, frame_index, cap, frame, output, handled,
                   kvars, mvars>>

\* on_click, lines 467-473: the callback OpenCV runs for a mouse event while
\* the tool is in cv.waitKey.
OnClick(event, x, y) ==
    /\ IF event = "EVENT_LBUTTONDOWN" /\ current_point \in DfIndex
       THEN points_df' =
                LocSetRow(points_df, current_point,
                          [index |-> current_point,
                           name |-> DfLoc(current_point).name,
                           wx |-> DfLoc(current_point).x,
                           wy |-> DfLoc(current_point).y,
                           px |-> x, py |-> y])
       ELSE UNCHANGED points_df
    /\ UNCHANGED <<landmarks, video, current_point, show_instruction,
                   frame_index, cap, frame, points_before_loop, tpc, output,
                   handled, kvars, mvars>>

MouseEvent ==
    /\ tpc \in {"waitKey", "watchKey"}
    /\ \E event \in Events, spot \in ClickSpots : OnClick(event, spot[1], spot[2])

\* Lines 488-525: cv.waitKey(5) returns k, and the rest of the iteration.
Key(k) ==
    /\ handled' = [key |-> k,
                   added |-> Len(points_df) > points_before_loop,
                   before |-> current_point,
                   removed |-> IF k = KeyUndo /\ points_df # << >>
                               THEN points_df[Len(points_df)].index
                               ELSE NoLabel]
    /\ tpc' = IF k = KeyQuit THEN "exit" ELSE "loop"
    /\ IF k = KeyNext /\ cap < video
       THEN /\ frame' = cap
            /\ cap' = cap + 1
            /\ frame_index' = frame_index + 1
       ELSE IF k = KeyPrev
       THEN LET pos == Max0(frame_index - 2) IN
            IF pos < video
            THEN /\ frame' = pos
                 /\ cap' = pos + 1
                 /\ frame_index' = Max0(frame_index - 1)
            ELSE /\ cap' = pos
                 /\ UNCHANGED <<frame, frame_index>>
       ELSE UNCHANGED <<frame, cap, frame_index>>
    /\ current_point' =
           IF k = KeySkip THEN current_point + 1
           ELSE IF k = KeyUndo THEN Max0(current_point - 1)
           ELSE IF k = KeyNone /\ Len(points_df) > points_before_loop
           THEN current_point + 1
           ELSE current_point
    /\ points_df' = IF k = KeyUndo THEN DropLast(points_df) ELSE points_df
    /\ show_instruction' =
           IF k = KeyHide THEN ~show_instruction ELSE show_instruction
    /\ UNCHANGED <<landmarks, video, points_before_loop, output, kvars, mvars>>

WaitKey ==
    /\ tpc = "waitKey"
    /\ \E k \in Keys : Key(k)

\* Lines 530-551: the second loop reads the next frame; when there is none,
\* and at every 30th frame, it draws and calls cv.waitKey(1).
WatchRead ==
    /\ tpc = "watch"
    /\ IF cap < video
       THEN /\ frame' = cap
            /\ cap' = cap + 1
            /\ frame_index' = frame_index + 1
            /\ tpc' = IF (frame_index + 1) % 30 = 0 THEN "watchKey" ELSE "watch"
       ELSE /\ tpc' = "watchKey"
            /\ UNCHANGED <<frame, cap, frame_index>>
    /\ UNCHANGED <<landmarks, video, points_df, current_point,
                   show_instruction, points_before_loop, output, handled,
                   kvars, mvars>>

\* Lines 552-563: the key of the second loop; Enter ends it and the table is
\* written.
WatchKey ==
    /\ tpc = "watchKey"
    /\ \E k \in Keys :
           /\ tpc' = IF k = KeyQuit THEN "exit"
                     ELSE IF k = KeyEnter THEN "done" ELSE "watch"
           /\ show_instruction' =
                  IF k = KeyHide THEN ~show_instruction ELSE show_instruction
           /\ output' = IF k = KeyEnter THEN ToCsv(points_df) ELSE output
    /\ UNCHANGED <<landmarks, video, points_df, current_point, frame_index,
                   cap, frame, points_before_loop, handled, kvars, mvars>>

NextTool ==
    \/ LoopTop
    \/ MouseEvent
    \/ WaitKey
    \/ WatchRead
    \/ WatchKey

SpecTool == InitTool /\ [][NextTool]_vars

-----------------------------------------------------------------------------
(* Properties of PixelMapper *)

\* What forward mapping is to make of point p: the distortion correction of
\* the mapper's calibration, if it has one, and then its homography.
Mapped(self, p) ==
    LET q == IF self.intrinsic_mtx = None THEN p
             ELSE Append(p, [op |-> IF self.fisheye
                                    THEN "fisheye.undistortPoints"
                                    ELSE "undistortPoints",
                             with |-> <<self.intrinsic_mtx, self.distortion,
                                        self.newcameramtx>>])
    IN  Append(q, [op |-> "perspectiveTransform", with |-> <<self.homography>>])

\* C9: a forward call on a batch of n points returns n points, the i-th of
\* them the i-th input point after distortion correction (when an intrinsic
\* matrix is attached) and then the homography.
C9_ForwardKeepsCountAndOrder ==
    (arg.name = "__call__" /\ arg.self.homography # None) =>
        /\ res.kind = "return"
        /\ Len(res.val) = Len(arg.X)
        /\ \A i \in DOMAIN arg.X : res.val[i] = Mapped(arg.self, arg.X[i][1])

\* A forward call mapped a batch of two different points with a mapper that
\* has an intrinsic calibration.
C9_Witness ==
    /\ arg.name = "__call__"
    /\ res.kind = "return"
    /\ arg.self.intrinsic_mtx # None
    /\ Len(arg.X) = 2
    /\ arg.X[1] # arg.X[2]
    /\ Len(res.val) = 2

\* C10: the mapper has an inverse operation, and without distortion
\* correction the inverse of what forward returned for a batch returns that
\* batch.
C10_InverseRoundTrip ==
    (arg.name = "inv" /\ arg.trip /\ arg.self.intrinsic_mtx = None) =>
        /\ res.kind = "return"
        /\ res.val = arg.of

\* C11: undistort and __call__ leave the five fields of the mapper as they
\* were, and a call of either on a batch returns what an earlier call of it
\* on the same batch returned, whatever calls were made in between (the
\* caller having assigned no field meanwhile).
C11_ForwardIsPure ==
    /\ arg.name \in {"__call__", "undistort"} => arg.after = arg.self
    /\ (ref.name # "" /\ ref.n >= 1 /\ arg.name = ref.name /\ arg.X = ref.X) =>
           res = ref.out

\* A forward call on a batch of points was repeated, with a calibrated
\* mapper, after at least one other call.
C11_Witness ==
    /\ ref.name = "__call__"
    /\ ref.n = 2
    /\ arg.name = "__call__"
    /\ arg.X = ref.X
    /\ Len(arg.X) >= 1
    /\ res.kind = "return"
    /\ arg.self.intrinsic_mtx # None

\* C12: a fit that gave no matrix or a non-invertible one, or whose
\* correspondence points lie on one line, ends with a
\* DegenerateHomographyError; a degenerate matrix is never the mapper's
\* homography once the fit is stored, never maps points, and never is in the
\* output file.
C12_DegenerateFitRejected ==
    /\ (mpc \in {"store", "map", "dump", "done", "raised"}
          /\ (Degenerate(cal.pixel2world_homography)
                \/ Collinear(PtsPixels(cal.df))
                \/ Collinear(PtsWorld(cal.df)))) =>
           (mpc = "raised" /\ cal.err = "DegenerateHomographyError")
    /\ mpc \in {"map", "dump", "done"} => ~Degenerate(pm.homography)
    /\ mpc \in {"dump", "done"} => ~Degenerate(arg.self.homography)
    /\ cal.file.exists => ~Degenerate(cal.file.pixel2world_homography)

-----------------------------------------------------------------------------
(* Properties of tie_pixels_to_world *)

\* The landmark indices recorded in the table.
Recorded == {points_df[i].index : i \in DOMAIN points_df}

\* C16: whatever was clicked and whichever keys were pressed, the table has
\* at most one row for a landmark, every row is of a landmark of the input
\* and of one not beyond current_point, and current_point is within
\* 0 .. len(df).
C16_TableWellFormed ==
    /\ \A i, j \in DOMAIN points_df :
           points_df[i].index = points_df[j].index => i = j
    /\ \A i \in DOMAIN points_df :
           /\ points_df[i].index \in DfIndex
           /\ points_df[i].index <= current_point
           /\ points_df[i].name = DfLoc(points_df[i].index).name
    /\ current_point \in 0 .. Len(landmarks)

\* Two landmarks were clicked, the second undone; the instructions are
\* hidden and the video was moved on a frame.
C16_Witness ==
    /\ handled.key = KeyUndo
    /\ handled.removed # NoLabel
    /\ points_df # << >>
    /\ current_point >= 1
    /\ ~show_instruction
    /\ frame_index >= 1

\* C17: the correspondence an undo discards is not one of a landmark of
\* smaller index than the current_point the undo leaves.
C17_UndoKeepsEarlier ==
    (handled.key = KeyUndo /\ handled.removed # NoLabel) =>
        handled.removed >= current_point

\* C18: an iteration in which a click added a row ends with current_point
\* one further, whichever key cv.waitKey returned, so that at the top of the
\* loop the current landmark is never one already recorded.
C18_ClickAdvances ==
    /\ (handled.added /\ tpc # "exit") => current_point = handled.before + 1
    /\ tpc = "loop" => current_point \notin Recorded

====
